---- MODULE Spec2Model ----
(***************************************************************************)
(* Model of the AhAveragesPy auction pipeline:                             *)
(*   src/__main__.py       ingestion pass (filter, decode, normalise, key, *)
(*                         persist), error sink, detailed store            *)
(*   src/currentAhAvgs.py  aggregation (remove_outliers, averages)         *)
(* Spec is one ingestion pass on fresh databases, SpecKey the key step on   *)
(* pairs of records, SpecAgg the aggregation, SpecMig the schema step of    *)
(* the detailed store on a database left by an earlier run.                 *)
(*                                                                         *)
(* Python values are modelled as follows.                                  *)
(*   str            a sequence of one-character strings ("ab" is           *)
(*                  <<"a","b">>); the section sign is the atom SECT        *)
(*   None / value   None is <<>>, a present value v is <<v>> (Some(v))     *)
(*   dict with fixed optional keys (an auction, a compound of the item)    *)
(*                  a function whose DOMAIN is the set of keys present     *)
(*   dict iterated in insertion order (enchantments, attributes, gems,     *)
(*                  relevant_enchants) a sequence of <<key, value>> pairs  *)
(*                  with pairwise distinct keys                            *)
(*   a / b (float)  the reduced fraction <<num, den>>                      *)
(*   int, float of currentAhAvgs.py   pairs, see the numbers section        *)
(***************************************************************************)
EXTENDS Integers, Sequences, FiniteSets, TLC

VARIABLES
    pc,            \* position of the ingestion pass (main of __main__.py)
    options,       \* options.json, loaded at line 57
    feed,          \* data0.get('auctions', []), line 78
    auctions,      \* the local list `auctions`, rebound by every step
    decodeCalls,   \* timestamps of the auctions handed to decode_item_bytes
    errlog,        \* decode_errors.log: one entry per log_decode_error call
    prices,        \* table prices of database.db
    pricesV2,      \* table pricesV2 of database2.db
    auxRows,       \* rows of item_enchants/_attributes/_gems/_rarities/_reforges
    cursor,        \* index of the next auction of the step 9 loop
    sqlFailures,   \* number of auxiliary inserts that have raised
    schema,        \* schema of database2.db: columns of pricesV2, tables, indexes
    runs,          \* number of the current run of main on these databases
    item_prices,   \* currentAhAvgs.main: key -> prices and plain_item
    cleaned_prices,\* currentAhAvgs.main: key -> the local cleaned_prices
    averages,      \* table averages of currentAuctions.db
    apc            \* position of currentAhAvgs.main

vars == <<pc, options, feed, auctions, decodeCalls, errlog, prices, pricesV2,
          auxRows, cursor, sqlFailures, schema, runs, item_prices,
          cleaned_prices, averages, apc>>

ingestVars == <<pc, options, feed, auctions, decodeCalls, errlog, prices,
                pricesV2, auxRows, cursor, sqlFailures, schema, runs>>

storeVars == <<schema, runs>>

aggVars == <<item_prices, cleaned_prices, averages, apc>>

(***************************************************************************)
(* Bounds of the model.                                                    *)
(***************************************************************************)
MaxBatch == 2

MaxSqlFailures == 1

MaxPrices == 5

(***************************************************************************)
(* Python values.                                                          *)
(***************************************************************************)
None == <<>>

Some(v) == <<v>>

Val(o) == o[1]

\* d.get(k) of a dict with optional keys
Get(d, k) == IF k \in DOMAIN d THEN Some(d[k]) ELSE None

SECT == "sect"

Digits == <<"0", "1", "2", "3", "4", "5", "6", "7", "8", "9">>

RECURSIVE ToStr(_)
\* str(n) of a non-negative int
ToStr(n) ==
    IF n < 10 THEN <<Digits[n + 1]>>
    ELSE ToStr(n \div 10) \o <<Digits[(n % 10) + 1]>>

RECURSIVE Join(_, _)
\* sep.join(parts)
Join(parts, sep) ==
    IF Len(parts) = 0 THEN <<>>
    ELSE IF Len(parts) = 1 THEN parts[1]
    ELSE parts[1] \o sep \o Join(Tail(parts), sep)

\* whether `sub` occurs in `s` at position i
OccursAt(sub, s, i) ==
    /\ i + Len(sub) - 1 <= Len(s)
    /\ \A j \in 1..Len(sub) : s[i + j - 1] = sub[j]

\* sub in s, for two str
IsSubstr(sub, s) == \E i \in 1..(Len(s) + 1) : OccursAt(sub, s, i)

RECURSIVE ReplaceFrom(_, _, _, _)
ReplaceFrom(s, old, new, i) ==
    IF i > Len(s) THEN <<>>
    ELSE IF OccursAt(old, s, i)
         THEN new \o ReplaceFrom(s, old, new, i + Len(old))
         ELSE <<s[i]>> \o ReplaceFrom(s, old, new, i + 1)

\* s.replace(old, new) for a non-empty old: every non-overlapping literal
\* occurrence of old, left to right
Replace(s, old, new) == ReplaceFrom(s, old, new, 1)

\* x in lst, for a list
InList(x, lst) == \E i \in 1..Len(lst) : lst[i] = x

\* [f(x) for x in lst]
MapSeq(f(_), lst) == [i \in 1..Len(lst) |-> f(lst[i])]

RECURSIVE Filter(_, _)
\* [x for x in lst if keep(x)]
Filter(keep(_), lst) ==
    IF Len(lst) = 0 THEN <<>>
    ELSE (IF keep(lst[1]) THEN <<lst[1]>> ELSE <<>>) \o Filter(keep, Tail(lst))

\* the keys of an insertion-ordered dict
Keys(d) == {d[i][1] : i \in 1..Len(d)}

\* d[k] of an insertion-ordered dict that has key k
Lookup(d, k) == d[CHOOSE i \in 1..Len(d) : d[i][1] = k][2]

RECURSIVE Gcd(_, _)
Gcd(a, b) == IF b = 0 THEN a ELSE Gcd(b, a % b)

\* a / b for ints a >= 0, b > 0: the exact quotient as a reduced fraction
TrueDiv(a, b) == LET g == Gcd(a, b) IN <<a \div g, b \div g>>

(***************************************************************************)
(* The strings of the modelled inputs.                                     *)
(***************************************************************************)
sSharpness == <<"s", "h", "a", "r", "p", "n", "e", "s", "s">>

sPower == <<"p", "o", "w", "e", "r">>

sSpeed == <<"s", "p", "e", "e", "d">>

sElite == <<"e", "l", "i", "t", "e">>

sEPIC == <<"E", "P", "I", "C">>

sRARE == <<"R", "A", "R", "E">>

sOdd == <<"O", "d", "d">>

sFair == <<"F", "a", "i", "r">>

sOddBow == <<"O", "d", "d", " ", "B", "o", "w">>

sFairOddRod == <<"F", "a", "i", "r", " ", "O", "d", "d", " ", "R", "o", "d">>

sBOW == <<"B", "O", "W">>

sROD == <<"R", "O", "D">>

sFINE == <<"F", "I", "N", "E">>

sJADE == <<"J", "A", "D", "E">>

\* the literals of the key format, lines 151-171
sComma == <<",">>

sPlus == <<"+">>

sEq == <<"=">>

sDot == <<".">>

sRarityUpgrade == <<"r", "a", "r", "i", "t", "y", "_", "u", "p", "g", "r", "a", "d", "e">>

sColorEq == <<"c", "o", "l", "o", "r", "=">>

sUnlockedSlots == <<"u", "n", "l", "o", "c", "k", "e", "d", "_", "s", "l", "o", "t", "s">>

\* the literal '§.' of line 136: a section sign followed by a full stop
sStripped == <<SECT, ".">>

\* {} : a dict with no key
EmptyDict == [k \in {} |-> 0]

(***************************************************************************)
(* Python truthiness of the optional values the pipeline tests.            *)
(***************************************************************************)
\* bool(o) for o an int or None
TruthyInt(o) == o # None /\ Val(o) # 0

\* bool(o) for o a str, a list, an insertion-ordered dict, or None
TruthySized(o) == o # None /\ Len(Val(o)) > 0

(***************************************************************************)
(* decode_item_bytes, __main__.py lines 35-51.  A blob is                  *)
(* [valid |-> FALSE] when base64 or NBT parsing raises on it, and          *)
(* [valid |-> TRUE, root |-> t] when it parses to the compound t; the      *)
(* result is None or the unpacked compound.                                *)
(***************************************************************************)
DecodeFails(b) == b = None \/ ~Val(b).valid

decode_item_bytes(b) == IF DecodeFails(b) THEN None ELSE Some(Val(b).root)

(***************************************************************************)
(* Step 1, line 79: the filter of the fetched auctions.                    *)
(***************************************************************************)
\* the filter had it tested the fixed-price flag alone
PassesFilterBinOnly(x) == Get(x, "bin") = Some(TRUE)

PassesFilter(x) ==
    /\ Get(x, "bin") = Some(TRUE)
    /\ TruthySized(Get(x, "buyer"))

(***************************************************************************)
(* Step 4, lines 107-112: x['detail']['i'][0].                             *)
(***************************************************************************)
ExtractRaises(x) ==
    \/ "i" \notin DOMAIN x.detail
    \/ Len(x.detail.i) = 0

ExtractSlot(x) == [x EXCEPT !.detail = x.detail.i[1]]

(***************************************************************************)
(* Step 5, lines 119-144: the record built from one auction.               *)
(***************************************************************************)
DisplayOf(detail) ==
    IF "display" \in DOMAIN detail.tag THEN detail.tag.display ELSE EmptyDict

\* the entries of ea['gems'] the comprehension of line 134 keeps
GemIsDict(g) == g[1] # sUnlockedSlots /\ g[2].isdict

\* the entries the any(...) of line 135 counts
GemQualifies(g) == GemIsDict(g) /\ "quality" \in DOMAIN g[2].d

GemsWanted(ea) ==
    /\ TruthySized(Get(ea, "gems"))
    /\ \E i \in 1..Len(ea.gems) : GemQualifies(ea.gems[i])

\* v['quality'] raises KeyError on a dict entry without a quality
GemsRaises(ea) ==
    /\ GemsWanted(ea)
    /\ \E i \in 1..Len(ea.gems) :
          GemIsDict(ea.gems[i]) /\ ~GemQualifies(ea.gems[i])

GemQuality(g) == <<g[1], g[2].d.quality>>

GemsOf(ea) ==
    IF GemsWanted(ea)
    THEN Some(MapSeq(GemQuality, Filter(GemIsDict, ea.gems)))
    ELSE None

\* line 136: l.replace('§.', '')
StripLine(l) == Replace(l, sStripped, <<>>)

LoreOf(display) ==
    IF "Lore" \in DOMAIN display THEN MapSeq(StripLine, display.Lore) ELSE <<>>

\* line 127
UnitPrice(x, detail) ==
    IF TruthyInt(Get(detail, "Count"))
    THEN Some(TrueDiv(x.price, detail.Count))
    ELSE None

\* whether the try block of lines 120-142 raises
ProcessRaises(x) ==
    \/ "tag" \notin DOMAIN x.detail
    \/ "ExtraAttributes" \notin DOMAIN x.detail.tag
    \/ "timestamp" \notin DOMAIN x
    \/ "price" \notin DOMAIN x
    \/ GemsRaises(x.detail.tag.ExtraAttributes)

ProcessRecord(x) ==
    LET detail == x.detail
        ea == detail.tag.ExtraAttributes
        display == DisplayOf(detail)
    IN  [timestamp |-> x.timestamp,
         price |-> x.price,
         unitprice |-> UnitPrice(x, detail),
         count |-> Get(detail, "Count"),
         ench1 |-> Get(detail.tag, "ench"),
         ench2 |-> Get(ea, "enchantments"),
         recomb |-> Get(ea, "rarity_upgrades"),
         color |-> IF Get(display, "color") # None
                   THEN Some(ToStr(display.color)) ELSE None,
         attributes |-> Get(ea, "attributes"),
         gems |-> GemsOf(ea),
         lore |-> LoreOf(display),
         name |-> Get(display, "Name"),
         id |-> Get(ea, "id"),
         item_bytes |-> Get(x, "item_bytes"),
         full_nbt |-> Get(x, "full_nbt")]

(***************************************************************************)
(* Step 6, lines 148-172: the key of one record.                           *)
(***************************************************************************)
\* f"{k}={v}" for a str k and an int v
Assign(k, v) == k \o sEq \o ToStr(v)

RelevantEnchants(opts) ==
    IF "relevant_enchants" \in DOMAIN opts THEN opts.relevant_enchants ELSE <<>>

\* lines 151-154 had the level test of line 153 been left out
EnchPartAnyLevel(a, opts) ==
    LET ench2 == Val(a.ench2)
        relevant(e) == e[1] \in Keys(ench2)
        one(e) == Assign(e[1], Lookup(ench2, e[1]))
    IN  Join(MapSeq(one, Filter(relevant, RelevantEnchants(opts))), sComma)

\* lines 151-154
EnchPart(a, opts) ==
    LET ench2 == Val(a.ench2)
        relevant(e) == /\ e[1] \in Keys(ench2)
                       /\ InList(Lookup(ench2, e[1]), e[2])
        one(e) == Assign(e[1], Lookup(ench2, e[1]))
    IN  Join(MapSeq(one, Filter(relevant, RelevantEnchants(opts))), sComma)

\* line 157
LoreRarities(a, opts) ==
    LET inLore(r) == InList(r, a.lore)
    IN  IF "rarities" \in DOMAIN opts THEN Filter(inLore, opts.rarities) ELSE <<>>

\* line 160
ReforgesPresent(a, opts) ==
    LET inName(r) == TruthySized(a.name) /\ IsSubstr(r, Val(a.name))
    IN  IF "reforges" \in DOMAIN opts THEN Filter(inName, opts.reforges) ELSE <<>>

\* lines 167-168
AttrsPart(a) ==
    LET one(kv) == Assign(kv[1], kv[2])
    IN  Join(MapSeq(one, Val(a.attributes)), sComma)

EnchSegment(a, opts) ==
    IF TruthySized(a.ench2) /\ Len(EnchPart(a, opts)) > 0
    THEN <<EnchPart(a, opts)>> ELSE <<>>

RaritySegment(a, opts) ==
    IF Len(LoreRarities(a, opts)) > 0
    THEN <<Join(LoreRarities(a, opts), sComma)>> ELSE <<>>

ReforgeSegment(a, opts) ==
    IF Len(ReforgesPresent(a, opts)) > 0
    THEN <<Join(ReforgesPresent(a, opts), sComma)>> ELSE <<>>

RecombSegment(a) == IF TruthyInt(a.recomb) THEN <<sRarityUpgrade>> ELSE <<>>

ColorSegment(a) ==
    IF a.color # None THEN <<sColorEq \o Val(a.color)>> ELSE <<>>

AttrsSegment(a) ==
    IF TruthySized(a.attributes) /\ Len(AttrsPart(a)) > 0
    THEN <<AttrsPart(a)>> ELSE <<>>

\* the list `parts` at line 171
Parts(a, opts) ==
    EnchSegment(a, opts) \o RaritySegment(a, opts) \o ReforgeSegment(a, opts)
        \o RecombSegment(a) \o ColorSegment(a) \o AttrsSegment(a)

\* line 171 raises TypeError (None + '.') when the record has no id
KeyRaises(a) == a.id = None

\* line 171, for a record with an id
ItemKey(a, opts) == Val(a.id) \o sDot \o Join(Parts(a, opts), sPlus)

\* lines 171-172
WithKeys(a, opts) ==
    [k \in DOMAIN a \cup {"key", "base_key"} |->
        IF k = "key" THEN ItemKey(a, opts)
        ELSE IF k = "base_key" THEN a.id
        ELSE a[k]]

(***************************************************************************)
(* Step 9, lines 236-267: the auxiliary facts of one observation, in the   *)
(* order their inserts are attempted.  A fact is <<table, row>>.           *)
(***************************************************************************)
EnchFacts(a, price_id) ==
    LET row(e) == <<"item_enchants",
                    [price_id |-> price_id, enchant |-> e[1], level |-> e[2]]>>
    IN  IF TruthySized(a.ench2) THEN MapSeq(row, Val(a.ench2)) ELSE <<>>

AttrFacts(a, price_id) ==
    LET row(e) == <<"item_attributes",
                    [price_id |-> price_id, attribute |-> e[1], value |-> e[2]]>>
    IN  IF TruthySized(a.attributes) THEN MapSeq(row, Val(a.attributes)) ELSE <<>>

GemFacts(a, price_id) ==
    LET row(e) == <<"item_gems",
                    [price_id |-> price_id, gem |-> e[1], quality |-> e[2]]>>
    IN  IF TruthySized(a.gems) THEN MapSeq(row, Val(a.gems)) ELSE <<>>

\* lines 254-256: options.get('rarities') or []
RarityFacts(a, price_id, opts) ==
    LET row(r) == <<"item_rarities", [price_id |-> price_id, rarity |-> r]>>
        inLore(r) == InList(r, a.lore)
    IN  IF Len(a.lore) > 0 /\ "rarities" \in DOMAIN opts
        THEN MapSeq(row, Filter(inLore, opts.rarities)) ELSE <<>>

\* lines 261-263
ReforgeFacts(a, price_id, opts) ==
    LET row(r) == <<"item_reforges", [price_id |-> price_id, reforge |-> r]>>
        inName(r) == IsSubstr(r, Val(a.name))
    IN  IF TruthySized(a.name) /\ TruthySized(Get(opts, "reforges"))
        THEN MapSeq(row, Filter(inName, opts.reforges)) ELSE <<>>

Facts(a, price_id, opts) ==
    EnchFacts(a, price_id) \o AttrFacts(a, price_id) \o GemFacts(a, price_id)
        \o RarityFacts(a, price_id, opts) \o ReforgeFacts(a, price_id, opts)

AuxTables ==
    {"item_enchants", "item_attributes", "item_gems", "item_rarities",
     "item_reforges"}

\* the stage tag log_decode_error is given for a failed insert into a table
InsertStage(table) ==
    CASE table = "item_enchants" -> "insert_enchant"
      [] table = "item_attributes" -> "insert_attribute"
      [] table = "item_gems" -> "insert_gem"
      [] table = "item_rarities" -> "insert_rarity"
      [] table = "item_reforges" -> "insert_reforge"

\* lines 231-234: the parent row of one observation
ParentRow(a, price_id) ==
    [id |-> price_id,
     timestamp |-> a.timestamp,
     itemkey |-> a.key,
     base_key |-> a.base_key,
     unitprice |-> a.unitprice,
     count |-> a.count,
     recomb |-> IF TruthyInt(a.recomb) THEN 1 ELSE 0,
     color |-> a.color,
     name |-> a.name,
     raw_item_bytes |-> a.item_bytes,
     full_nbt_json |-> a.full_nbt,
     ench |-> IF TruthySized(a.ench2) THEN a.ench2 ELSE None]

\* lines 180 and 190: the row of the legacy table
LegacyRow(a) ==
    [timestamp |-> a.timestamp, itemkey |-> a.key, price |-> a.unitprice]

(***************************************************************************)
(* The error sink, lines 16-33: one entry per call of log_decode_error.    *)
(* auction_id and price_id are None when the context does not carry them;   *)
(* what is the enchant, attribute, gem, rarity or reforge of a failed       *)
(* insert, and the empty str otherwise.  The stage of a decode failure,     *)
(* whose context has no stage tag, is written "decode".                     *)
(***************************************************************************)
LogEntry(stage, auction_id, price_id, what) ==
    [stage |-> stage, auction_id |-> auction_id, price_id |-> price_id,
     what |-> what]

(***************************************************************************)
(* The inputs: the decoded items, the auctions of the feed, options.json.  *)
(***************************************************************************)
PlainEA == [id |-> sBOW]

PlainDisplay == [Name |-> sOddBow]

RichEA ==
    [id |-> sROD,
     enchantments |-> <<<<sPower, 1>>, <<sSharpness, 6>>>>,
     rarity_upgrades |-> 1,
     attributes |-> <<<<sSpeed, 1>>, <<sElite, 2>>>>,
     gems |-> <<<<sJADE, [isdict |-> TRUE, d |-> [quality |-> sFINE]]>>,
                <<sUnlockedSlots, [isdict |-> FALSE, d |-> EmptyDict]>>>>]

RichDisplay ==
    [Name |-> sFairOddRod,
     Lore |-> <<sStripped \o sEPIC, <<SECT, "6">> \o sRARE>>,
     color |-> 255]

\* a gem entry that is a dict without a quality, beside one that has it
BadGemEA ==
    [id |-> sROD,
     gems |-> <<<<sJADE, [isdict |-> TRUE, d |-> [quality |-> sFINE]]>>,
                <<sFINE, [isdict |-> TRUE, d |-> EmptyDict]>>>>]

Item(count, ea, display) ==
    [Count |-> count, tag |-> [display |-> display, ExtraAttributes |-> ea]]

\* the blob of a root compound {i: items}
Blob(items) == [valid |-> TRUE, root |-> [i |-> items]]

CorruptBlob == [valid |-> FALSE]

PlainItem == Item(1, PlainEA, PlainDisplay)

RichItem == Item(2, RichEA, RichDisplay)

\* ExtraAttributes without an id
NoIdItem == Item(1, [rarity_upgrades |-> 1], PlainDisplay)

ZeroCountItem == Item(0, PlainEA, PlainDisplay)

NoCountItem == [tag |-> [display |-> PlainDisplay, ExtraAttributes |-> PlainEA]]

NoEAItem == [Count |-> 1, tag |-> [display |-> PlainDisplay]]

BadGemItem == Item(1, BadGemEA, PlainDisplay)

\* a sold fixed-price auction
Sold(blob) ==
    [bin |-> TRUE, buyer |-> <<"u">>, price |-> 100, item_bytes |-> blob]

FeedAuctions ==
    {Sold(CorruptBlob), Sold(Blob(<<PlainItem>>)), Sold(Blob(<<RichItem>>)),
     Sold(Blob(<<NoIdItem>>)), Sold(Blob(<<ZeroCountItem>>)),
     Sold(Blob(<<NoCountItem>>)), Sold(Blob(<<>>)), Sold(Blob(<<NoEAItem>>)),
     Sold(Blob(<<BadGemItem>>)),
     \* not fixed-price, bin absent, buyer absent, buyer empty
     [bin |-> FALSE, buyer |-> <<"u">>, price |-> 100,
      item_bytes |-> Blob(<<PlainItem>>)],
     [buyer |-> <<"u">>, price |-> 100, item_bytes |-> Blob(<<PlainItem>>)],
     [bin |-> TRUE, price |-> 100, item_bytes |-> Blob(<<RichItem>>)],
     [bin |-> TRUE, buyer |-> <<>>, price |-> 100, item_bytes |-> CorruptBlob]}

\* the i-th auction of a fetched batch: its identifier and timestamp are i
Stamped(x, i) == [auction_id |-> i, timestamp |-> i] @@ x

Batches ==
    UNION {{[i \in 1..n |-> Stamped(f[i], i)] : f \in [1..n -> FeedAuctions]} :
           n \in 0..MaxBatch}

FullOptions ==
    [relevant_enchants |-> <<<<sSharpness, <<5, 6, 7>>>>>>,
     rarities |-> <<sRARE, sEPIC>>,
     reforges |-> <<sOdd, sFair>>]

IngestOptions == {FullOptions, EmptyDict}

(***************************************************************************)
(* The schema of database2.db, lines 194-227.  columns is None while the    *)
(* table pricesV2 does not exist, and the list of its column names in the   *)
(* order of PRAGMA table_info otherwise; tables holds the auxiliary tables  *)
(* that exist and indexes the indexes that exist.                           *)
(***************************************************************************)
\* lines 196-210: the columns of the CREATE TABLE statement
V2Columns ==
    <<"id", "timestamp", "itemkey", "base_key", "unitprice", "count", "recomb",
      "color", "name", "raw_item_bytes", "full_nbt_json", "ench">>

\* lines 226-227
IndexNames == {"idx_pricesV2_itemkey", "idx_pricesV2_timestamp"}

\* database2.db as sqlite3.connect creates it, line 194
EmptyStore == [columns |-> None, tables |-> {}, indexes |-> {}]

\* SQLite compares column names without regard to case
Lower(name) == IF name = "ENCH" THEN "ench" ELSE name

\* whether SQLite finds the column `name` among cols
HasColumn(cols, name) ==
    \E i \in 1..Len(cols) : Lower(cols[i]) = Lower(name)

\* lines 195-211: CREATE TABLE IF NOT EXISTS pricesV2
CreatePricesV2(s) ==
    IF s.columns = None THEN [s EXCEPT !.columns = Some(V2Columns)] ELSE s

\* lines 213-214: the set of names PRAGMA table_info returns
ExistingCols(s) == {Val(s.columns)[i] : i \in 1..Len(Val(s.columns))}

\* line 215: 'ench' not in existing_cols, a comparison of Python strs
NeedsEnch(s) == "ench" \notin ExistingCols(s)

\* line 217: ALTER TABLE raises "duplicate column name" when SQLite finds the
\* column
AlterRaises(s) == HasColumn(Val(s.columns), "ench")

\* lines 215-218: whether the column is added
AddsEnch(s) == NeedsEnch(s) /\ ~AlterRaises(s)

\* the columns left as they are found
LeaveColumns(s) == s

\* lines 212-220
EnsureEnch(s) ==
    IF AddsEnch(s) THEN [s EXCEPT !.columns = Some(Append(Val(@), "ench"))]
    ELSE s

\* lines 221-225: CREATE TABLE IF NOT EXISTS of the five auxiliary tables
CreateAuxTables(s) == [s EXCEPT !.tables = @ \cup AuxTables]

\* lines 226-227: CREATE INDEX IF NOT EXISTS of the two indexes
CreateIndexes(s) == [s EXCEPT !.indexes = @ \cup IndexNames]

\* lines 195-227
Migrate(s) == CreateIndexes(CreateAuxTables(EnsureEnch(CreatePricesV2(s))))

\* ALTER TABLE ADD COLUMN: every stored row reads NULL in the new column
AddColumn(rows, c) ==
    [i \in 1..Len(rows) |->
        [k \in DOMAIN rows[i] \cup {c} |->
            IF k \in DOMAIN rows[i] THEN rows[i][k] ELSE None]]

\* lines 219-220: the entry of a failed ALTER TABLE
MigrateEntry == LogEntry("migrate_add_ench_column", None, None, <<>>)

(***************************************************************************)
(* The ingestion pass: main of __main__.py.                                *)
(***************************************************************************)
AggIdle ==
    /\ item_prices = EmptyDict
    /\ cleaned_prices = EmptyDict
    /\ averages = EmptyDict
    /\ apc = "idle"

Init ==
    /\ pc = "start"
    /\ options \in IngestOptions
    /\ feed \in Batches
    /\ auctions = <<>>
    /\ decodeCalls = <<>>
    /\ errlog = <<>>
    /\ prices = <<>>
    /\ pricesV2 = <<>>
    /\ auxRows = [t \in AuxTables |-> <<>>]
    /\ cursor = 0
    /\ sqlFailures = 0
    /\ schema = EmptyStore
    /\ runs = 1
    /\ AggIdle

\* lines 78-79
FilterAuctions ==
    /\ pc = "start"
    /\ auctions' = Filter(PassesFilter, feed)
    /\ pc' = "decode"
    /\ UNCHANGED aggVars
    /\ UNCHANGED storeVars
    /\ UNCHANGED <<options, feed, decodeCalls, errlog, prices, pricesV2,
                   auxRows, cursor, sqlFailures>>

\* x.get('auction_id') or x.get('uuid') or x.get('id'), lines 86 and 112
AuctionId(x) == Get(x, "auction_id")

\* lines 81-97: every auction of the list is handed to decode_item_bytes
Decode ==
    LET fails(x) == decode_item_bytes(Get(x, "item_bytes")) = None
        ok(x) == ~fails(x)
        withDetail(x) ==
            [detail |-> Val(decode_item_bytes(Get(x, "item_bytes"))),
             full_nbt |-> Val(decode_item_bytes(Get(x, "item_bytes")))] @@ x
        entry(x) == LogEntry("decode", AuctionId(x), None, <<>>)
    IN  /\ pc = "decode"
        /\ decodeCalls' = decodeCalls \o auctions
        /\ errlog' = errlog \o MapSeq(entry, Filter(fails, auctions))
        /\ auctions' = MapSeq(withDetail, Filter(ok, auctions))
        /\ pc' = "extract"
        /\ UNCHANGED aggVars
        /\ UNCHANGED storeVars
        /\ UNCHANGED <<options, feed, prices, pricesV2, auxRows, cursor,
                       sqlFailures>>

\* lines 104-115
Extract ==
    LET ok(x) == ~ExtractRaises(x)
        entry(x) == LogEntry("extract_i0", AuctionId(x), None, <<>>)
    IN  /\ pc = "extract"
        /\ errlog' = errlog \o MapSeq(entry, Filter(ExtractRaises, auctions))
        /\ auctions' = MapSeq(ExtractSlot, Filter(ok, auctions))
        /\ pc' = "process"
        /\ UNCHANGED aggVars
        /\ UNCHANGED storeVars
        /\ UNCHANGED <<options, feed, decodeCalls, prices, pricesV2, auxRows,
                       cursor, sqlFailures>>

\* lines 117-145
Process ==
    LET ok(x) == ~ProcessRaises(x)
        entry(x) == LogEntry("process_record", None, None, <<>>)
    IN  /\ pc = "process"
        /\ errlog' = errlog \o MapSeq(entry, Filter(ProcessRaises, auctions))
        /\ auctions' = MapSeq(ProcessRecord, Filter(ok, auctions))
        /\ pc' = "keys"
        /\ UNCHANGED aggVars
        /\ UNCHANGED storeVars
        /\ UNCHANGED <<options, feed, decodeCalls, prices, pricesV2, auxRows,
                       cursor, sqlFailures>>

\* lines 147-172: the loop stops at the first record whose key raises, and
\* main raises with it
MakeKeys ==
    LET raising == {i \in 1..Len(auctions) : KeyRaises(auctions[i])}
        first == CHOOSE i \in raising : \A j \in raising : i <= j
        keyed(a) == WithKeys(a, options)
    IN  /\ pc = "keys"
        /\ IF raising = {}
           THEN /\ auctions' = MapSeq(keyed, auctions)
                /\ pc' = "insert_legacy"
           ELSE /\ auctions' = [i \in 1..Len(auctions) |->
                                   IF i < first THEN keyed(auctions[i])
                                   ELSE auctions[i]]
                /\ pc' = "raised"
        /\ UNCHANGED aggVars
        /\ UNCHANGED storeVars
        /\ UNCHANGED <<options, feed, decodeCalls, errlog, prices, pricesV2,
                       auxRows, cursor, sqlFailures>>

\* lines 174-191: the projection auctions3 and the legacy table, committed
InsertLegacy ==
    /\ pc = "insert_legacy"
    /\ prices' = prices \o MapSeq(LegacyRow, auctions)
    /\ pc' = "open_v2"
    /\ UNCHANGED aggVars
    /\ UNCHANGED storeVars
    /\ UNCHANGED <<options, feed, auctions, decodeCalls, errlog, pricesV2,
                   auxRows, cursor, sqlFailures>>

\* lines 193-227: the detailed store is opened and its schema brought up to
\* date; a failed ALTER TABLE is logged and the pass goes on
OpenV2 ==
    LET created == CreatePricesV2(schema)
    IN  /\ pc = "open_v2"
        /\ schema' = Migrate(schema)
        /\ pricesV2' = IF AddsEnch(created) THEN AddColumn(pricesV2, "ench")
                       ELSE pricesV2
        /\ errlog' = IF NeedsEnch(created) /\ AlterRaises(created)
                     THEN Append(errlog, MigrateEntry)
                     ELSE errlog
        /\ cursor' = 1
        /\ pc' = "insert_v2"
        /\ UNCHANGED aggVars
        /\ UNCHANGED <<options, feed, auctions, decodeCalls, prices, auxRows,
                       sqlFailures, runs>>

\* the indices 1..n of a list of n elements, in order
Indices(n) == [j \in 1..n |-> j]

\* the facts inserted had one try block enclosed the inserts of an observation:
\* the first insert to raise would end them
InsertedUntilFailure(facts, failed) ==
    LET kept(j) == \A k \in failed : j < k
    IN  Filter(kept, Indices(Len(facts)))

\* lines 236-267: every insert of a fact is in a try block of its own, so the
\* facts inserted are all those whose own insert does not raise
InsertedFacts(facts, failed) ==
    LET kept(j) == j \notin failed
    IN  Filter(kept, Indices(Len(facts)))

\* the facts whose insert raised, in the order they were attempted
FailedFacts(facts, failed) ==
    LET hit(j) == j \in failed
    IN  Filter(hit, Indices(Len(facts)))

\* the rows a list of fact indices adds to table t
RowsInto(t, facts, idx) ==
    LET into(j) == facts[j][1] = t
        row(j) == facts[j][2]
    IN  MapSeq(row, Filter(into, idx))

\* the enchant, attribute, gem, rarity or reforge of a fact
FactName(f) ==
    CASE f[1] = "item_enchants" -> f[2].enchant
      [] f[1] = "item_attributes" -> f[2].attribute
      [] f[1] = "item_gems" -> f[2].gem
      [] f[1] = "item_rarities" -> f[2].rarity
      [] f[1] = "item_reforges" -> f[2].reforge

\* lines 228-267, one iteration: the parent row, then every auxiliary fact;
\* the inserts of the facts in `failed` raise and are logged
InsertV2Row ==
    /\ pc = "insert_v2"
    /\ cursor <= Len(auctions)
    /\ LET a == auctions[cursor]
           price_id == Len(pricesV2) + 1
           facts == Facts(a, price_id, options)
       IN  \E failed \in SUBSET (1..Len(facts)) :
              LET entry(j) == LogEntry(InsertStage(facts[j][1]), None,
                                       Some(price_id), FactName(facts[j]))
              IN  /\ sqlFailures + Cardinality(failed) <= MaxSqlFailures
                  /\ pricesV2' = Append(pricesV2, ParentRow(a, price_id))
                  /\ auxRows' =
                        [t \in AuxTables |->
                            auxRows[t] \o
                            RowsInto(t, facts, InsertedFacts(facts, failed))]
                  /\ errlog' = errlog \o MapSeq(entry, FailedFacts(facts, failed))
                  /\ sqlFailures' = sqlFailures + Cardinality(failed)
    /\ cursor' = cursor + 1
    /\ UNCHANGED aggVars
    /\ UNCHANGED storeVars
    /\ UNCHANGED <<pc, options, feed, auctions, decodeCalls, prices>>

\* lines 268-270
CommitV2 ==
    /\ pc = "insert_v2"
    /\ cursor > Len(auctions)
    /\ pc' = "returned"
    /\ UNCHANGED aggVars
    /\ UNCHANGED storeVars
    /\ UNCHANGED <<options, feed, auctions, decodeCalls, errlog, prices,
                   pricesV2, auxRows, cursor, sqlFailures>>

\* lines 272-277
Guard ==
    /\ pc \in {"returned", "raised"}
    /\ pc' = IF pc = "returned" THEN "done" ELSE "fatal"
    /\ UNCHANGED aggVars
    /\ UNCHANGED storeVars
    /\ UNCHANGED <<options, feed, auctions, decodeCalls, errlog, prices,
                   pricesV2, auxRows, cursor, sqlFailures>>

Next ==
    \/ FilterAuctions
    \/ Decode
    \/ Extract
    \/ Process
    \/ MakeKeys
    \/ InsertLegacy
    \/ OpenV2
    \/ InsertV2Row
    \/ CommitV2
    \/ Guard

Spec == Init /\ [][Next]_vars

(***************************************************************************)
(* Properties of the ingestion pass.                                       *)
(***************************************************************************)
PassEnded == pc \in {"done", "fatal"}

\* the auction is marked fixed-price and has a buyer
Sellable(x) ==
    /\ "bin" \in DOMAIN x /\ x.bin = TRUE
    /\ "buyer" \in DOMAIN x /\ x.buyer # <<>>

\* the auction's blob does not decode
Corrupt(x) == "item_bytes" \notin DOMAIN x \/ ~x.item_bytes.valid

\* the auction's blob decodes to a compound whose first item slot has its tag
\* and ExtraAttributes
HasItem(x) ==
    /\ ~Corrupt(x)
    /\ Len(x.item_bytes.root.i) >= 1
    /\ "tag" \in DOMAIN x.item_bytes.root.i[1]
    /\ "ExtraAttributes" \in DOMAIN x.item_bytes.root.i[1].tag

FeedEA(x) == x.item_bytes.root.i[1].tag.ExtraAttributes

\* every gem entry of the item that is a dict has a quality
GemsWellFormed(x) ==
    "gems" \in DOMAIN FeedEA(x) =>
        \A g \in 1..Len(FeedEA(x).gems) :
            FeedEA(x).gems[g][2].isdict =>
                "quality" \in DOMAIN FeedEA(x).gems[g][2].d

CountOf(x) ==
    IF "Count" \in DOMAIN x.item_bytes.root.i[1]
    THEN x.item_bytes.root.i[1].Count ELSE 0

\* the blob decodes into a well-formed item: base id and a count of 1 or more
WellFormed(x) ==
    /\ HasItem(x)
    /\ "id" \in DOMAIN FeedEA(x)
    /\ GemsWellFormed(x)
    /\ CountOf(x) >= 1

RowsOf(table, ts) == {k \in 1..Len(table) : table[k].timestamp = ts}

DecodeEntries(i) ==
    {k \in 1..Len(errlog) :
        errlog[k].stage = "decode" /\ errlog[k].auction_id = <<i>>}

\* C1: when a pass has ended, every filtered auction whose blob fails to
\* decode has exactly one decode entry in the error sink and no observation,
\* and every filtered auction whose blob decodes into a well-formed item has
\* exactly one row in prices and one in pricesV2.
C1_DecodeFailureIsolated ==
    PassEnded =>
        \A i \in 1..Len(feed) :
            Sellable(feed[i]) =>
                /\ Corrupt(feed[i]) =>
                      /\ Cardinality(DecodeEntries(i)) = 1
                      /\ RowsOf(prices, i) = {}
                      /\ RowsOf(pricesV2, i) = {}
                /\ WellFormed(feed[i]) =>
                      /\ Cardinality(RowsOf(prices, i)) = 1
                      /\ Cardinality(RowsOf(pricesV2, i)) = 1

\* a filtered auction that decodes to an item whose ExtraAttributes has no id
LacksId(x) == Sellable(x) /\ HasItem(x) /\ "id" \notin DOMAIN FeedEA(x)

\* C2: when a pass has ended on a batch holding a filtered auction whose
\* ExtraAttributes has no id, main has not raised, that record is logged and
\* has no observation, and every well-formed auction of the batch has its
\* observation.
C2_MissingIdIsolated ==
    PassEnded =>
        \A i \in 1..Len(feed) :
            LacksId(feed[i]) =>
                /\ pc = "done"
                /\ \E k \in 1..Len(errlog) : errlog[k].stage = "process_record"
                /\ RowsOf(pricesV2, i) = {}
                /\ \A j \in 1..Len(feed) :
                      Sellable(feed[j]) /\ WellFormed(feed[j]) =>
                          Cardinality(RowsOf(pricesV2, j)) = 1

\* C3: an auction of the feed that is not marked fixed-price or has no buyer
\* is never handed to decode_item_bytes, never in the list the later steps
\* work on, and never in a row of prices or pricesV2; every auction handed to
\* decode_item_bytes is fixed-price with a buyer.
C3_OnlySoldBinDecoded ==
    /\ \A c \in 1..Len(decodeCalls) : Sellable(decodeCalls[c])
    /\ \A i \in 1..Len(feed) :
          ~Sellable(feed[i]) =>
              /\ \A c \in 1..Len(decodeCalls) : decodeCalls[c].timestamp # i
              /\ \A k \in 1..Len(auctions) : auctions[k].timestamp # i
              /\ RowsOf(prices, i) = {}
              /\ RowsOf(pricesV2, i) = {}

\* a finished pass over a batch with an unsold auction and a sold one, the
\* sold one decoded and persisted
C3_Witness ==
    /\ pc = "done"
    /\ \E i \in 1..Len(feed) : ~Sellable(feed[i])
    /\ \E j \in 1..Len(feed) :
          /\ Sellable(feed[j])
          /\ \E c \in 1..Len(decodeCalls) : decodeCalls[c].timestamp = j
          /\ RowsOf(pricesV2, j) # {}

\* C4: every row of pricesV2 has a count of 1 or more and a unit price equal
\* to price / count, no row of prices has a null price, and when the pass is
\* done every filtered auction whose item has a zero or absent count has no
\* row and the error sink has an entry for it.
C4_CountAtLeastOne ==
    /\ \A k \in 1..Len(pricesV2) :
          /\ pricesV2[k].count # None
          /\ pricesV2[k].count[1] >= 1
          /\ pricesV2[k].unitprice # None
          /\ pricesV2[k].unitprice[1][1] * pricesV2[k].count[1]
                = feed[pricesV2[k].timestamp].price * pricesV2[k].unitprice[1][2]
    /\ \A k \in 1..Len(prices) : prices[k].price # None
    /\ pc = "done" =>
          \A i \in 1..Len(feed) :
              Sellable(feed[i]) /\ HasItem(feed[i]) /\ CountOf(feed[i]) = 0 =>
                  /\ RowsOf(pricesV2, i) = {}
                  /\ \E k \in 1..Len(errlog) : errlog[k].stage = "process_record"

InsertEntries(price_id, f) ==
    {k \in 1..Len(errlog) :
        /\ errlog[k].stage = InsertStage(f[1])
        /\ errlog[k].price_id = <<price_id>>
        /\ errlog[k].what = FactName(f)}

Stored(f) == \E k \in 1..Len(auxRows[f[1]]) : auxRows[f[1]][k] = f[2]

\* C10: while and after the rows of the detailed store are written, every
\* auction the loop has passed has its parent row, whether or not an insert
\* of its facts raised; each of its facts is either stored in its table or
\* logged as a failed insert, never both and never neither; every raised
\* insert is logged; and the pass ends done with a parent row for every
\* keyed auction.
C10_AuxFailureIsolated ==
    pc \in {"insert_v2", "returned", "done"} =>
        /\ Len(pricesV2) = cursor - 1
        /\ pc # "insert_v2" => cursor - 1 = Len(auctions)
        /\ Cardinality({k \in 1..Len(errlog) : errlog[k].price_id # None})
              = sqlFailures
        /\ \A i \in 1..(cursor - 1) :
              /\ pricesV2[i].id = i
              /\ pricesV2[i].timestamp = auctions[i].timestamp
              /\ LET facts == Facts(auctions[i], i, options)
                 IN  \A j \in 1..Len(facts) :
                        Stored(facts[j]) <=> InsertEntries(i, facts[j]) = {}

\* a finished pass in which the first insert of the first observation's
\* facts raised, a later fact of that observation is stored, and a later
\* observation has its row
C10_Witness ==
    /\ pc = "done"
    /\ sqlFailures >= 1
    /\ Len(pricesV2) >= 2
    /\ LET facts == Facts(auctions[1], 1, options)
       IN  /\ Len(facts) >= 2
           /\ InsertEntries(1, facts[1]) # {}
           /\ Stored(facts[2])

(***************************************************************************)
(* Key derivation on its own: step 6 applied to two records, the second a  *)
(* reordering of the first's enchantment and attribute maps, under every   *)
(* rule configuration of KeyOptions.                                       *)
(***************************************************************************)
KeyRecord(ench2, lore, name, recomb, color, attributes) ==
    [timestamp |-> 1, price |-> 100, unitprice |-> Some(<<100, 1>>),
     count |-> Some(1), ench1 |-> None, ench2 |-> ench2, recomb |-> recomb,
     color |-> color, attributes |-> attributes, gems |-> None, lore |-> lore,
     name |-> name, id |-> Some(sBOW), item_bytes |-> None, full_nbt |-> None]

KeyEnchants ==
    {None, Some(<<>>), Some(<<<<sSharpness, 6>>>>), Some(<<<<sSharpness, 4>>>>),
     Some(<<<<sPower, 1>>, <<sSharpness, 7>>>>)}

\* no lore, two rarity lines, a colour-coded rarity line, a blank line
KeyLores ==
    {<<>>, <<sRARE, sEPIC>>, <<<<SECT, "6">> \o sEPIC>>, <<<<>>, sEPIC>>}

KeyNames == {None, Some(sOddBow), Some(sFairOddRod)}

KeyRecombs == {None, Some(1)}

KeyColors == {None, Some(<<"2", "5", "5">>)}

KeyAttrs ==
    {None, Some(<<<<sSpeed, 1>>>>), Some(<<<<sSpeed, 1>>, <<sElite, 2>>>>)}

KeyRecords ==
    {KeyRecord(e, l, n, r, c, t) :
        e \in KeyEnchants, l \in KeyLores, n \in KeyNames, r \in KeyRecombs,
        c \in KeyColors, t \in KeyAttrs}

\* each option absent or present; a token list may hold the empty str
KeyOptions ==
    {[k \in ks |-> CASE k = "relevant_enchants" -> e
                     [] k = "rarities" -> r
                     [] k = "reforges" -> f] :
        ks \in SUBSET {"relevant_enchants", "rarities", "reforges"},
        e \in {<<<<sSharpness, <<5, 6, 7>>>>>>,
               <<<<sSharpness, <<5, 6, 7>>>>, <<sPower, <<1>>>>>>},
        r \in {<<sRARE, sEPIC>>, <<<<>>>>},
        f \in {<<sOdd, sFair>>, <<<<>>>>}}

\* the same dict with its entries inserted in the reverse order
Reversed(o) ==
    IF o = None THEN None
    ELSE Some([i \in 1..Len(Val(o)) |-> Val(o)[Len(Val(o)) + 1 - i]])

Reorderings(a) ==
    {[a EXCEPT !.ench2 = e, !.attributes = t] :
        e \in {a.ench2, Reversed(a.ench2)},
        t \in {a.attributes, Reversed(a.attributes)}}

InitKey ==
    /\ pc = "keys"
    /\ options \in KeyOptions
    /\ feed = <<>>
    /\ \E a \in KeyRecords : \E b \in Reorderings(a) : auctions = <<a, b>>
    /\ decodeCalls = <<>>
    /\ errlog = <<>>
    /\ prices = <<>>
    /\ pricesV2 = <<>>
    /\ auxRows = [t \in AuxTables |-> <<>>]
    /\ cursor = 0
    /\ sqlFailures = 0
    /\ schema = EmptyStore
    /\ runs = 1
    /\ AggIdle

NextKey == MakeKeys

SpecKey == InitKey /\ [][NextKey]_vars

Keyed == pc = "insert_legacy"

\* two optional dicts equal as values: the same name-to-value entries
SameDict(o1, o2) ==
    /\ (o1 = None) <=> (o2 = None)
    /\ o1 # None =>
          /\ Len(Val(o1)) = Len(Val(o2))
          /\ {Val(o1)[i] : i \in 1..Len(Val(o1))}
                = {Val(o2)[i] : i \in 1..Len(Val(o2))}

\* two records equal as values
SameRecord(a, b) ==
    /\ SameDict(a.ench2, b.ench2)
    /\ SameDict(a.attributes, b.attributes)
    /\ a.lore = b.lore /\ a.name = b.name /\ a.recomb = b.recomb
    /\ a.color = b.color /\ a.id = b.id

\* C5: two records that are equal as values, whatever the insertion order
\* of their enchantment and attribute entries, get the same key under the
\* same rule configuration.
C5_KeyIgnoresInsertionOrder ==
    Keyed =>
        (SameRecord(auctions[1], auctions[2])
            => auctions[1].key = auctions[2].key)

\* what follows "<id>." in a key
KeyTail(a) == SubSeq(a.key, Len(Val(a.id)) + 2, Len(a.key))

ConfiguredEnchants ==
    IF "relevant_enchants" \in DOMAIN options
    THEN options.relevant_enchants ELSE <<>>

ConfiguredTokens(k) == IF k \in DOMAIN options THEN options[k] ELSE <<>>

\* the six segments of the key of a record, each the empty str when it has
\* nothing to say, in the order relevant-enchants, rarities, reforges,
\* rarity_upgrade, color, attributes
ExpectedSegments(a) ==
    LET has(e) == /\ a.ench2 # None
                  /\ \E i \in 1..Len(a.ench2[1]) :
                        /\ a.ench2[1][i][1] = e[1]
                        /\ \E l \in 1..Len(e[2]) : e[2][l] = a.ench2[1][i][2]
        level(e) == (CHOOSE p \in {a.ench2[1][i] : i \in 1..Len(a.ench2[1])} :
                        p[1] = e[1])[2]
        ench(e) == e[1] \o <<"=">> \o ToStr(level(e))
        isLine(r) == \E i \in 1..Len(a.lore) : a.lore[i] = r
        inName(r) == a.name # None /\ a.name[1] # <<>> /\ IsSubstr(r, a.name[1])
        attr(p) == p[1] \o <<"=">> \o ToStr(p[2])
    IN  << Join(MapSeq(ench, SelectSeq(ConfiguredEnchants, has)), <<",">>),
           Join(SelectSeq(ConfiguredTokens("rarities"), isLine), <<",">>),
           Join(SelectSeq(ConfiguredTokens("reforges"), inName), <<",">>),
           IF a.recomb # None /\ a.recomb[1] # 0 THEN sRarityUpgrade ELSE <<>>,
           IF a.color # None THEN sColorEq \o a.color[1] ELSE <<>>,
           IF a.attributes # None
           THEN Join(MapSeq(attr, a.attributes[1]), <<",">>) ELSE <<>> >>

NonEmpty(seg) == seg # <<>>

\* C6: the key of every record is its id, ".", and the non-empty segments in
\* the fixed order joined with "+"; what follows the "." neither starts nor
\* ends with "+" and holds no "++".
C6_KeyFormat ==
    Keyed =>
        \A k \in 1..Len(auctions) :
            LET a == auctions[k]
                tail == KeyTail(a)
            IN  /\ a.key = a.id[1] \o <<".">>
                       \o Join(SelectSeq(ExpectedSegments(a), NonEmpty), <<"+">>)
                /\ tail # <<>> => tail[1] # "+" /\ tail[Len(tail)] # "+"
                /\ ~IsSubstr(<<"+", "+">>, tail)

\* the enchant name is a configured key of relevant_enchants and the level is
\* in its configured level set
RelevantLevel(name, level) ==
    \E i \in 1..Len(ConfiguredEnchants) :
        /\ ConfiguredEnchants[i][1] = name
        /\ \E l \in 1..Len(ConfiguredEnchants[i][2]) :
              ConfiguredEnchants[i][2][l] = level

\* C7: an enchant of a record's enchantments has its assignment name=level
\* in the key exactly when its name is configured and its level is in that
\* name's level set; a record none of whose enchants is relevant has no
\* enchant assignment in its key at all; sharpness 6 under
\* {sharpness: [5,6,7]} gives sharpness=6, sharpness 4 gives no "sharpness".
C7_RelevantEnchantsOnly ==
    Keyed =>
        \A k \in 1..Len(auctions) :
            LET a == auctions[k]
                ench2 == IF a.ench2 = None THEN <<>> ELSE a.ench2[1]
            IN  /\ \A i \in 1..Len(ench2) :
                      IsSubstr(ench2[i][1] \o <<"=">> \o ToStr(ench2[i][2]), a.key)
                          <=> RelevantLevel(ench2[i][1], ench2[i][2])
                /\ (\A i \in 1..Len(ench2) :
                        ~RelevantLevel(ench2[i][1], ench2[i][2]))
                      => /\ ~IsSubstr(sSharpness \o <<"=">>, a.key)
                         /\ ~IsSubstr(sPower \o <<"=">>, a.key)
                /\ (/\ ench2 = <<<<sSharpness, 4>>>>
                    /\ ConfiguredEnchants = <<<<sSharpness, <<5, 6, 7>>>>>>)
                      => ~IsSubstr(sSharpness, a.key)
                /\ (/\ ench2 = <<<<sSharpness, 6>>>>
                    /\ ConfiguredEnchants = <<<<sSharpness, <<5, 6, 7>>>>>>)
                      => IsSubstr(sSharpness \o <<"=", "6">>, a.key)

\* the key of a record with enchantments {sharpness: 6} under
\* relevant_enchants {sharpness: [5,6,7]}
C7_Witness ==
    /\ Keyed
    /\ auctions[1].ench2 = <<<<<<sSharpness, 6>>>>>>
    /\ ConfiguredEnchants = <<<<sSharpness, <<5, 6, 7>>>>>>
    /\ IsSubstr(sSharpness \o <<"=", "6">>, auctions[1].key)

(***************************************************************************)
(* The numbers of currentAhAvgs.py.  A Python int is unbounded, and a float *)
(* has 53 significant bits: from 2^53 on, not every int is a float, and     *)
(* the conversions and the arithmetic of lines 26-27 round.                 *)
(*   int     the pair <<hi, lo>> is the int hi * 2^52 + lo                  *)
(*   float   the pair <<a, b>> is the float (a * 2^52 + b) / 4              *)
(* lo and b are far below 2^50 in magnitude, so that pairs compare in       *)
(* lexicographic order.                                                     *)
(***************************************************************************)
\* the int n, for n far below 2^52
IntOf(n) == <<0, n>>

\* the int 2^53 + d
Above2To53(d) == <<2, d>>

PairLeq(x, y) == x[1] < y[1] \/ (x[1] = y[1] /\ x[2] <= y[2])

PairLess(x, y) == x[1] < y[1] \/ (x[1] = y[1] /\ x[2] < y[2])

PairPlus(x, y) == <<x[1] + y[1], x[2] + y[2]>>

PairMinus(x, y) == <<x[1] - y[1], x[2] - y[2]>>

PairTimes(k, x) == <<k * x[1], k * x[2]>>

\* the largest power of two that is at most n, and 1 for n < 2
RECURSIVE Pow2Floor(_)
Pow2Floor(n) == IF n < 2 THEN 1 ELSE 2 * Pow2Floor(n \div 2)

\* the multiple of m nearest to x, the one with the even quotient on a tie
RoundHalfEven(x, m) ==
    LET q == x \div m
        r == x - q * m
    IN  IF 2 * r < m THEN q * m
        ELSE IF 2 * r > m THEN (q + 1) * m
        ELSE IF q % 2 = 0 THEN q * m ELSE (q + 1) * m

\* the float nearest to the number (a * 2^52 + b) / 4, ties to the even
\* significand: between 2^(e+50) and 2^(e+51) the floats are 2^(e-2) apart
Round(f) ==
    LET neg == f[1] < 0 \/ (f[1] = 0 /\ f[2] < 0)
        a == IF neg THEN 0 - f[1] ELSE f[1]
        b == IF neg THEN 0 - f[2] ELSE f[2]
        below == IF b >= 0 THEN a ELSE a - 1
        r == IF below <= 0 THEN b ELSE RoundHalfEven(b, Pow2Floor(below))
    IN  IF neg THEN <<0 - a, 0 - r>> ELSE <<a, r>>

\* the number an int is, in the units of a float
Quarters(i) == PairTimes(4, i)

\* the conversion of an int to a float
Float(i) == Round(Quarters(i))

\* 1.5 * f for the float f of an int
FloatTimes15(f) == Round(<<(3 * f[1]) \div 2, (3 * f[2]) \div 2>>)

FloatPlus(f, g) == Round(PairPlus(f, g))

FloatMinus(f, g) == Round(PairMinus(f, g))

(***************************************************************************)
(* currentAhAvgs.py: remove_outliers, lines 19-28.                         *)
(***************************************************************************)
RECURSIVE InsertSorted(_, _)
InsertSorted(x, s) ==
    IF Len(s) = 0 THEN <<x>>
    ELSE IF PairLeq(x, s[1]) THEN <<x>> \o s
    ELSE <<s[1]>> \o InsertSorted(x, Tail(s))

RECURSIVE SortedList(_)
SortedList(s) ==
    IF Len(s) = 0 THEN <<>> ELSE InsertSorted(s[1], SortedList(Tail(s)))

\* the quartiles had the list been indexed as it came, without the sort
Unsorted(group) == group

\* line 22: sorted(group)
Sorted(group) == SortedList(group)

\* line 23
Q1(group) == Sorted(group)[(Len(group) \div 4) + 1]

\* line 24
Q3(group) == Sorted(group)[((3 * Len(group)) \div 4) + 1]

\* line 25: an int
iqr(group) == PairMinus(Q3(group), Q1(group))

\* line 26: q1 - 1.5 * iqr, a float
lower_bound(group) ==
    FloatMinus(Float(Q1(group)), FloatTimes15(Float(iqr(group))))

\* line 27: q3 + 1.5 * iqr, a float
upper_bound(group) ==
    FloatPlus(Float(Q3(group)), FloatTimes15(Float(iqr(group))))

\* line 28 had the comparison been strict
WithinBoundsStrict(group, p) ==
    /\ PairLess(lower_bound(group), Quarters(p))
    /\ PairLess(Quarters(p), upper_bound(group))

\* line 28: lower_bound <= p <= upper_bound; Python compares a float and an
\* int by their exact values
WithinBounds(group, p) ==
    /\ PairLeq(lower_bound(group), Quarters(p))
    /\ PairLeq(Quarters(p), upper_bound(group))

remove_outliers(group) ==
    LET keep(p) == WithinBounds(group, p)
    IN  IF Len(group) < 4 THEN group ELSE Filter(keep, group)

RECURSIVE Sum(_)
Sum(s) == IF Len(s) = 0 THEN IntOf(0) ELSE PairPlus(s[1], Sum(Tail(s)))

\* line 99: sum(cleaned_prices) / len(cleaned_prices), the float nearest to
\* the quotient: written as the reduced fraction the quotient is when the
\* sum is below 2^52, and as the sum and the length otherwise
Average(s) ==
    IF Sum(s)[1] = 0 THEN TrueDiv(Sum(s)[2], Len(s)) ELSE <<Sum(s), Len(s)>>

(***************************************************************************)
(* currentAhAvgs.py: process_auctions and the loop of main.                *)
(***************************************************************************)
\* itemKeyMaker.create_item_key, lines 21-32, of the first item slot; the
\* str() of line 62 is the tagged record itself
create_item_key(detail) ==
    <<"item",
      [name |-> detail.tag.display.Name,
       id |-> detail.tag.ExtraAttributes.id,
       count |-> detail.Count,
       lore |-> IF "Lore" \in DOMAIN detail.tag.display
                THEN detail.tag.display.Lore ELSE <<>>,
       ench1 |-> IF "ench" \in DOMAIN detail.tag THEN detail.tag.ench ELSE <<>>,
       ench2 |-> IF "enchantments" \in DOMAIN detail.tag.ExtraAttributes
                 THEN detail.tag.ExtraAttributes.enchantments ELSE <<>>,
       recomb |-> IF "rarity_upgrades" \in DOMAIN detail.tag.ExtraAttributes
                  THEN <<detail.tag.ExtraAttributes.rarity_upgrades>> ELSE <<>>]>>

\* lines 59-67: the key of an auction, None when it has neither blob nor name
AuctionKey(auction) ==
    IF "item_bytes" \in DOMAIN auction
    THEN Some(create_item_key(auction.item_bytes.root.i[1]))
    ELSE IF "item_name" \in DOMAIN auction /\ Len(auction.item_name) > 0
         THEN Some(<<"name", auction.item_name>>)
         ELSE None

\* line 68
StartingBid(auction) ==
    IF "starting_bid" \in DOMAIN auction THEN auction.starting_bid ELSE IntOf(0)

\* the starting bids of the listings: 10, 11, 12, 13, 1000 and 2^53 + 3
AggPrices ==
    {IntOf(10), IntOf(11), IntOf(12), IntOf(13), IntOf(1000), Above2To53(3)}

\* listings by name alone, listings with an item blob, a listing with neither
AggAuctions ==
    {[item_name |-> sOddBow, starting_bid |-> p] : p \in AggPrices}
    \cup {[item_name |-> sFairOddRod, item_bytes |-> Blob(<<RichItem>>),
           starting_bid |-> p] : p \in {IntOf(10), IntOf(1000)}}
    \cup {[starting_bid |-> IntOf(10)]}

RECURSIVE TotalPrices(_, _)
TotalPrices(ip, ks) ==
    IF ks = {} THEN 0
    ELSE LET k == CHOOSE k \in ks : TRUE
         IN  Len(ip[k].prices) + TotalPrices(ip, ks \ {k})

\* the number of prices collected so far
Collected == TotalPrices(item_prices, DOMAIN item_prices)

InitAgg ==
    /\ pc = "idle"
    /\ options = EmptyDict
    /\ feed = <<>>
    /\ auctions = <<>>
    /\ decodeCalls = <<>>
    /\ errlog = <<>>
    /\ prices = <<>>
    /\ pricesV2 = <<>>
    /\ auxRows = [t \in AuxTables |-> <<>>]
    /\ cursor = 0
    /\ sqlFailures = 0
    /\ schema = EmptyStore
    /\ runs = 1
    /\ item_prices = EmptyDict
    /\ cleaned_prices = EmptyDict
    /\ averages = EmptyDict
    /\ apc = "collect"

\* lines 58-72: one iteration of the loop of process_auctions
ProcessAuction ==
    /\ apc = "collect"
    /\ Collected < MaxPrices
    /\ \E auction \in AggAuctions :
          LET key == AuctionKey(auction)
              k == Val(key)
              old == IF k \in DOMAIN item_prices
                     THEN item_prices[k]
                     ELSE [prices |-> <<>>, plain_item |-> Get(auction, "item_name")]
              new == [old EXCEPT !.prices = Append(@, StartingBid(auction))]
          IN  item_prices' =
                  IF key = None THEN item_prices
                  ELSE [x \in DOMAIN item_prices \cup {k} |->
                           IF x = k THEN new ELSE item_prices[x]]
    /\ UNCHANGED <<cleaned_prices, averages, apc>>
    /\ UNCHANGED ingestVars

\* lines 95-105: every key's prices cleaned, and the average and volume of
\* every key whose cleaned list is not empty written to averages
Aggregate ==
    /\ apc = "collect"
    /\ cleaned_prices' =
          [k \in DOMAIN item_prices |-> remove_outliers(item_prices[k].prices)]
    /\ averages' =
          LET cleaned(k) == remove_outliers(item_prices[k].prices)
              written == {k \in DOMAIN item_prices : Len(cleaned(k)) > 0}
          IN  [k \in written |->
                  [plain_item |-> item_prices[k].plain_item,
                   average |-> Average(cleaned(k)),
                   volume |-> Len(cleaned(k))]]
    /\ apc' = "done"
    /\ UNCHANGED item_prices
    /\ UNCHANGED ingestVars

NextAgg ==
    \/ ProcessAuction
    \/ Aggregate

SpecAgg == InitAgg /\ [][NextAgg]_vars

(***************************************************************************)
(* Properties of the aggregation.                                          *)
(***************************************************************************)
Aggregated == apc = "done"

\* v is the element at 0-based index idx of the ascending order of s
IsOrderStatistic(s, v, idx) ==
    /\ \E i \in 1..Len(s) : s[i] = v
    /\ Cardinality({i \in 1..Len(s) : PairLess(s[i], v)}) <= idx
    /\ idx < Cardinality({i \in 1..Len(s) : PairLeq(s[i], v)})

\* p lies in [q1 - 1.5*(q3 - q1), q3 + 1.5*(q3 - q1)]
InFence(p, q1, q3) ==
    LET spread == PairTimes(3, PairMinus(q3, q1))
    IN  /\ PairLeq(PairMinus(PairTimes(2, q1), spread), PairTimes(2, p))
        /\ PairLeq(PairTimes(2, p), PairPlus(PairTimes(2, q3), spread))

\* C8: a group of fewer than 4 prices is returned unchanged; of a group of
\* n >= 4 prices exactly the prices within [Q1 - 1.5*IQR, Q3 + 1.5*IQR] are
\* returned, in their order, Q1 and Q3 being the elements at indices
\* floor(n/4) and floor(3n/4) of the ascending order.
C8_RemoveOutliers ==
    Aggregated =>
        \A k \in DOMAIN item_prices :
            LET group == item_prices[k].prices
                n == Len(group)
            IN  /\ n < 4 => cleaned_prices[k] = group
                /\ n >= 4 =>
                      \E i1, i3 \in 1..n :
                          LET fenced(p) == InFence(p, group[i1], group[i3])
                          IN  /\ IsOrderStatistic(group, group[i1], n \div 4)
                              /\ IsOrderStatistic(group, group[i3], (3 * n) \div 4)
                              /\ cleaned_prices[k] = SelectSeq(group, fenced)

\* an aggregation with a group of at least 4 prices that lost an outlier and
\* a group of fewer than 4
C8_Witness ==
    /\ Aggregated
    /\ \E k \in DOMAIN item_prices :
          /\ Len(item_prices[k].prices) >= 4
          /\ Len(cleaned_prices[k]) < Len(item_prices[k].prices)
          /\ Len(cleaned_prices[k]) > 0
    /\ \E k \in DOMAIN item_prices :
          /\ Len(item_prices[k].prices) \in 1..3
          /\ cleaned_prices[k] = item_prices[k].prices

TheGroup == <<IntOf(10), IntOf(12), IntOf(11), IntOf(13), IntOf(1000)>>

\* the float h / 2, for a small h
Halves(h) == <<0, 2 * h>>

\* C9: for a key whose prices are [10, 12, 11, 13, 1000], Q1 is 12 and Q3
\* is 13, the bounds are [10.5, 14.5], the prices kept are 11, 12 and 13,
\* and the aggregate has average 12.0 and volume 3.
C9_SpecExample ==
    Aggregated =>
        \A k \in DOMAIN item_prices :
            item_prices[k].prices = TheGroup =>
                /\ Q1(TheGroup) = IntOf(12) /\ Q3(TheGroup) = IntOf(13)
                /\ lower_bound(TheGroup) = Halves(21)
                /\ upper_bound(TheGroup) = Halves(29)
                /\ {cleaned_prices[k][i] : i \in 1..Len(cleaned_prices[k])}
                      = {IntOf(11), IntOf(12), IntOf(13)}
                /\ k \in DOMAIN averages
                /\ averages[k].average = <<12, 1>>
                /\ averages[k].volume = 3

\* C9, amended: for a key whose prices are [10, 12, 11, 13, 1000], Q1 is 11
\* and Q3 is 13, the bounds are [8, 16], the prices kept are 10, 12, 11 and
\* 13, and the aggregate has average 11.5 and volume 4.
C9_SortedExample ==
    Aggregated =>
        \A k \in DOMAIN item_prices :
            item_prices[k].prices = TheGroup =>
                /\ Q1(TheGroup) = IntOf(11) /\ Q3(TheGroup) = IntOf(13)
                /\ lower_bound(TheGroup) = Halves(16)
                /\ upper_bound(TheGroup) = Halves(32)
                /\ cleaned_prices[k] = <<IntOf(10), IntOf(12), IntOf(11), IntOf(13)>>
                /\ k \in DOMAIN averages
                /\ averages[k].average = <<23, 2>>
                /\ averages[k].volume = 4

\* the aggregate of a key whose prices are [10, 12, 11, 13, 1000]
C9_Witness ==
    /\ Aggregated
    /\ \E k \in DOMAIN item_prices :
          /\ item_prices[k].prices = TheGroup
          /\ k \in DOMAIN averages

\* sub is lst with some of its elements left out, the others in their order
RECURSIVE IsSubList(_, _)
IsSubList(sub, lst) ==
    IF Len(sub) = 0 THEN TRUE
    ELSE IF Len(lst) = 0 THEN FALSE
    ELSE IF sub[1] = lst[1] THEN IsSubList(Tail(sub), Tail(lst))
    ELSE IsSubList(sub, Tail(lst))

\* C13: for every key with at least one price, the cleaned list is not
\* empty, is the group with some prices left out and the others in their
\* order, and holds Q1 and Q3, the elements at indices floor(n/4) and
\* floor(3n/4) of the ascending order of the group; the key has an aggregate,
\* and its volume is between 1 and the size of the group.
C13_QuartilesKept ==
    Aggregated =>
        \A k \in DOMAIN item_prices :
            LET group == item_prices[k].prices
                kept == cleaned_prices[k]
                n == Len(group)
            IN  n >= 1 =>
                  /\ Len(kept) >= 1
                  /\ IsSubList(kept, group)
                  /\ \E i1, i3 \in 1..n :
                        /\ IsOrderStatistic(group, group[i1], n \div 4)
                        /\ IsOrderStatistic(group, group[i3], (3 * n) \div 4)
                        /\ InList(group[i1], kept)
                        /\ InList(group[i3], kept)
                  /\ k \in DOMAIN averages
                  /\ averages[k].volume \in 1..n

(***************************************************************************)
(* The lore of the records of the ingestion pass, lines 136 and 157-159.    *)
(***************************************************************************)
\* the lore lines of the decoded item of a feed auction
FeedLore(x) ==
    LET display == DisplayOf(x.item_bytes.root.i[1])
    IN  IF "Lore" \in DOMAIN display THEN display.Lore ELSE <<>>

\* the line holds a section sign followed by a character
HasColorCode(l) == \E i \in 1..(Len(l) - 1) : l[i] = SECT

\* the code characters of the modelled lore
CodeChars == {"6", "."}

\* C12: when a pass is done, no lore line of a record holds a section sign
\* followed by a character, and for every configured rarity token, a lore
\* line of the item that is a color code followed by the token is the bare
\* token in the record and is among the rarities the exact-line test matches.
C12_ColorCodesStripped ==
    pc = "done" =>
        \A i \in 1..Len(auctions) :
            LET a == auctions[i]
                x == feed[a.timestamp]
            IN  /\ \A j \in 1..Len(a.lore) : ~HasColorCode(a.lore[j])
                /\ \A c \in CodeChars :
                   \A k \in 1..Len(ConfiguredTokens("rarities")) :
                      LET r == ConfiguredTokens("rarities")[k]
                      IN  InList(<<SECT, c>> \o r, FeedLore(x)) =>
                              /\ InList(r, a.lore)
                              /\ InList(r, LoreRarities(a, options))

(***************************************************************************)
(* The startup migration of the detailed store, lines 193-227: main is run  *)
(* on a database2.db left by an earlier run, with no sold auction in the    *)
(* feed, and then run again.                                                *)
(***************************************************************************)
MaxRuns == 2

\* pricesV2 as created before the column ench was added, line 212
OldColumns == SubSeq(V2Columns, 1, Len(V2Columns) - 1)

\* pricesV2 created by hand with the column spelled in capitals
UpperColumns == Append(OldColumns, "ENCH")

\* a row stored by an earlier run in a table of the given columns
StoredRow(cols, price_id) ==
    [c \in {cols[i] : i \in 1..Len(cols)} |->
        CASE c = "id" -> price_id
          [] c = "timestamp" -> price_id
          [] c = "itemkey" -> Some(sBOW \o sDot)
          [] c = "base_key" -> Some(sBOW)
          [] c = "unitprice" -> Some(<<100, 1>>)
          [] c = "count" -> Some(1)
          [] c = "recomb" -> 0
          [] Lower(c) = "ench" -> Some(<<<<sSharpness, 6>>>>)
          [] OTHER -> None]

\* the rows an earlier run may have left in pricesV2
StoredRows(cols) ==
    {<<>>, <<StoredRow(cols, 1)>>, <<StoredRow(cols, 1), StoredRow(cols, 2)>>}

\* the schemas database2.db may be found with
StoredSchemas ==
    {[columns |-> None, tables |-> ts, indexes |-> {}] : ts \in SUBSET AuxTables}
    \cup {[columns |-> Some(cols), tables |-> ts, indexes |-> ix] :
             cols \in {V2Columns, OldColumns, UpperColumns},
             ts \in SUBSET AuxTables,
             ix \in SUBSET IndexNames}

InitMig ==
    /\ pc = "open_v2"
    /\ options = EmptyDict
    /\ feed = <<>>
    /\ auctions = <<>>
    /\ decodeCalls = <<>>
    /\ errlog = <<>>
    /\ prices = <<>>
    /\ schema \in StoredSchemas
    /\ pricesV2 \in (IF schema.columns = None THEN {<<>>}
                     ELSE StoredRows(Val(schema.columns)))
    /\ auxRows = [t \in AuxTables |-> <<>>]
    /\ cursor = 0
    /\ sqlFailures = 0
    /\ runs = 1
    /\ AggIdle

\* main is started again: with no sold auction in the feed, lines 53-191 of
\* the new run leave both databases as they are
Restart ==
    /\ pc = "done"
    /\ runs < MaxRuns
    /\ runs' = runs + 1
    /\ cursor' = 0
    /\ pc' = "open_v2"
    /\ UNCHANGED aggVars
    /\ UNCHANGED <<options, feed, auctions, decodeCalls, errlog, prices,
                   pricesV2, auxRows, sqlFailures, schema>>

NextMig ==
    \/ OpenV2
    \/ CommitV2
    \/ Guard
    \/ Restart

SpecMig == InitMig /\ [][NextMig]_vars

\* the schema is migrated: pricesV2 with the column ench, the five auxiliary
\* tables and both indexes
Migrated(s) ==
    /\ s.columns # None
    /\ HasColumn(Val(s.columns), "ench")
    /\ AuxTables \subseteq s.tables
    /\ IndexNames \subseteq s.indexes

\* an older pricesV2: the table exists without the column ench
LacksEnch(s) ==
    /\ s.columns # None
    /\ ~HasColumn(Val(s.columns), "ench")

\* every row of `after` is the row of `before` at the same place with the
\* column c added and NULL, and nothing else differs
RowsKeptWith(before, after, c) ==
    /\ Len(after) = Len(before)
    /\ \A i \in 1..Len(before) :
          /\ DOMAIN after[i] = DOMAIN before[i] \cup {c}
          /\ \A k \in DOMAIN before[i] : after[i][k] = before[i][k]
          /\ after[i][c] = None

\* C11: the startup migration is idempotent.  A step of the migration taken
\* on a schema that is already migrated leaves the columns, the tables, the
\* indexes and every row as they are; taken on an older pricesV2 without the
\* column ench it appends exactly that column, keeps every other column in
\* place, drops no table, no index and no row, and changes no stored value.
C11_MigrationIdempotent ==
    [][pc = "open_v2" =>
          /\ Migrated(schema) =>
                /\ schema' = schema
                /\ pricesV2' = pricesV2
                /\ auxRows' = auxRows
          /\ LacksEnch(schema) =>
                /\ schema'.columns = Some(Append(Val(schema.columns), "ench"))
                /\ schema.tables \subseteq schema'.tables
                /\ schema.indexes \subseteq schema'.indexes
                /\ RowsKeptWith(pricesV2, pricesV2', "ench")
                /\ auxRows' = auxRows]_vars

\* the second run has migrated a store that the first run found with rows in
\* an older pricesV2 and brought up to date
C11_Witness ==
    /\ runs = 2
    /\ pc = "insert_v2"
    /\ Migrated(schema)
    /\ Val(schema.columns) = V2Columns
    /\ Len(pricesV2) = 2
    /\ \A i \in 1..Len(pricesV2) : pricesV2[i].ench = None

====
